---- MODULE Spec2Model ----
(***************************************************************************)
(* Model of the Syntri audio interface layer:                              *)
(*   - StubAudioInterface   (src/syntri/src/core/audio_interface.cpp)      *)
(*   - ASIOInterface        (src/syntri/src/hardware/asio_interface.cpp)   *)
(* The control thread calls initialize / shutdown / startStreaming /       *)
(* stopStreaming; each call is one action.  The ASIO driver thread runs    *)
(* the static callbacks; bufferSwitchCallback is split at its reads of the *)
(* shared, unsynchronised fields so that it interleaves with the control   *)
(* thread.                                                                 *)
(***************************************************************************)
EXTENDS Integers, Sequences, FiniteSets, TLC

VARIABLES
    asio_enabled,     \* the build: ASIO_SDK_AVAILABLE defined or not
    live,             \* the device objects that have been constructed
    initialized,      \* initialized_   per device
    streaming,        \* streaming_     per device
    asio_available,   \* asio_available_ per device (FALSE for the stub)
    sample_rate,      \* sample_rate_   per device
    buffer_size,      \* buffer_size_   per device
    processor,        \* processor_     per device
    driver_name,      \* asio_data_->driver_name per device
    callback_count,   \* asio_data_->callback_count per device
    current_instance, \* ASIOInterface::current_instance_ (static)
    driver_started,   \* the driver is running (ASIOStart succeeded, no ASIOStop since)
    cb,               \* the driver thread inside bufferSwitchCallback
    setup,            \* per processor: arguments of the last setupChanged it received
    acquisitions,     \* per device: drivers selected since construction / last shutdown
    count_at_stop,    \* per device: callback_count when stopStreaming last returned
    released,         \* per device: the processor unbound by the last stopStreaming
    call,             \* the call (control-thread operation or callback) that has just returned
    measured_latency, \* asio_data_->measured_latency_ms per device, in microseconds
    buffer_underruns, \* asio_data_->buffer_underruns per device
    process_calls,    \* per device: processAudio invocations made so far
    periods,          \* per device: nominal buffer periods elapsed since streaming started
    gm,               \* the getMetrics call in progress on the control thread
    resources,        \* per device: the driver resources asio_data_ holds
    enumerated,       \* the driver names enumerateASIODrivers returns to the classifier
    detected,         \* the result of getDetectedHardware
    test_call         \* a processAudio call on the pass-through test processor

vars == <<asio_enabled, live, initialized, streaming, asio_available, sample_rate,
          buffer_size, processor, driver_name, callback_count, current_instance,
          driver_started, cb, setup, acquisitions, count_at_stop, released, call,
          measured_latency, buffer_underruns, process_calls, periods,
          gm, resources, enumerated, detected, test_call>>

(***************************************************************************)
(* Program constants and the values the model draws its inputs from.       *)
(***************************************************************************)
SAMPLE_RATE_96K == 96000
SAMPLE_RATE_48K == 48000
BUFFER_SIZE_ULTRA_LOW == 32
BUFFER_SIZE_LOW == 64

\* Bounds of the model.
MaxCallbacks == 2
MaxAcquire == 2
MaxPeriods == 2
MaxDrivers == 1

NULL == "nullptr"
Devices == {"stub", "asio1", "asio2"}
Processors == {"P1", "P2"}
ArgRates == {SAMPLE_RATE_48K, SAMPLE_RATE_96K}
\* The buffer size initialize is called with; a device is constructed with
\* BUFFER_SIZE_ULTRA_LOW, so that both sizes occur.
ArgBuffers == {BUFFER_SIZE_LOW}
\* What enumerateASIODrivers may return on a call.
DriverLists == {<< >>, <<"Apollo X16">>}
Scenarios == {{"stub"}, {"asio1"}}
\* Two ASIOInterface objects in one process; they share current_instance_.
TwoDevices == {"asio1", "asio2"}

IsASIO(d) == d # "stub"

NoSetup == <<0, 0>>
NoStop == << >>
IdleCb == [pc |-> "idle", inst |-> NULL, proc |-> NULL, n |-> 0, sr |-> 0,
           count0 |-> 0, events |-> {}]

Snapshot(d) ==
    [initialized |-> initialized[d], streaming |-> streaming[d],
     asio_available |-> asio_available[d], sample_rate |-> sample_rate[d],
     buffer_size |-> buffer_size[d], processor |-> processor[d],
     driver_name |-> driver_name[d], callback_count |-> callback_count[d],
     current_instance |-> current_instance, driver_started |-> driver_started,
     setup |-> setup]

NoPre ==
    [initialized |-> FALSE, streaming |-> FALSE, asio_available |-> FALSE,
     sample_rate |-> 0, buffer_size |-> 0, processor |-> NULL, driver_name |-> "",
     callback_count |-> 0, current_instance |-> NULL, driver_started |-> FALSE,
     setup |-> [p \in Processors |-> NoSetup]]

NoCall ==
    [op |-> "none", dev |-> NULL, proc |-> NULL, sr |-> 0, bf |-> 0,
     ret |-> "void", notified |-> {}, drv |-> << >>, pre |-> NoPre, events |-> {}]

Returned(op, d, p, sr, bf, ret, notified, drv) ==
    [op |-> op, dev |-> d, proc |-> p, sr |-> sr, bf |-> bf, ret |-> ret,
     notified |-> notified, drv |-> drv, pre |-> Snapshot(d), events |-> {}]

\* A bufferSwitchCallback that has just returned on the driver thread of device
\* d: count0 is callback_count when the driver fired it, events what it did.
CallbackReturned(d, count0, events) ==
    [NoCall EXCEPT !.op = "bufferSwitch", !.dev = d,
                   !.pre = [NoPre EXCEPT !.callback_count = count0],
                   !.events = events]

Running == cb.pc # "crashed"

\* No getMetrics call is in progress.
IdleGm == [pc |-> "idle", dev |-> NULL, latency |-> <<0, 1>>, result |-> << >>,
           seen |-> {}]

\* The control thread is not inside getMetrics.
ControlFree == gm.pc # "reading"

(***************************************************************************)
(* Construction.                                                           *)
(***************************************************************************)
\* ASIOInterface::loadASIOSDK: false without the SDK, else CoInitialize decides.
LoadASIOSDK == IF asio_enabled THEN BOOLEAN ELSE {FALSE}

\* The classifier has not been called.
NotRun == <<"not run">>

\* No call of the test processor has been set up.
NoTestCall == [pc |-> "none"]

\* The variables of the hardware classifier and of the test processor, which
\* no device operation touches.
clsVars == <<enumerated, detected, test_call>>

\* ASIOData::ASIOData: no driver loaded, no buffer infos, no channel arrays.
\* loads counts the drivers the device has loaded and not released.
NoResources ==
    [driver_loaded |-> FALSE, buffer_infos |-> NULL, input_channels |-> NULL,
     output_channels |-> NULL, loads |-> 0]

\* The state in which the constructors leave the devices.
Constructed ==
    /\ asio_enabled \in BOOLEAN
    /\ live \in Scenarios \cup {TwoDevices}
    /\ initialized = [d \in Devices |-> FALSE]
    /\ streaming = [d \in Devices |-> FALSE]
    /\ asio_available \in [Devices -> BOOLEAN]
    /\ \A d \in Devices :
          asio_available[d] \in (IF IsASIO(d) /\ d \in live THEN LoadASIOSDK ELSE {FALSE})
    /\ sample_rate = [d \in Devices |-> SAMPLE_RATE_96K]
    /\ buffer_size = [d \in Devices |-> BUFFER_SIZE_ULTRA_LOW]
    /\ processor = [d \in Devices |-> NULL]
    /\ driver_name = [d \in Devices |-> ""]
    /\ callback_count = [d \in Devices |-> 0]
    /\ current_instance = NULL
    /\ driver_started = FALSE
    /\ cb = IdleCb
    /\ setup = [p \in Processors |-> NoSetup]
    /\ acquisitions = [d \in Devices |-> 0]
    /\ count_at_stop = [d \in Devices |-> NoStop]
    /\ released = [d \in Devices |-> NULL]
    /\ call = NoCall
    /\ measured_latency = [d \in Devices |-> 0]
    /\ buffer_underruns = [d \in Devices |-> 0]
    /\ process_calls = [d \in Devices |-> 0]
    /\ periods = [d \in Devices |-> 0]
    /\ gm = IdleGm
    /\ resources = [d \in Devices |-> NoResources]

Init ==
    /\ Constructed
    /\ live \in Scenarios
    /\ enumerated = << >>
    /\ detected = NotRun
    /\ test_call = NoTestCall

(***************************************************************************)
(* StubAudioInterface: the control-thread operations.                      *)
(***************************************************************************)
\* The variables only the ASIO implementation and its driver touch.
asioOnly == <<asio_available, driver_name, callback_count, current_instance,
              driver_started, cb, acquisitions, measured_latency, buffer_underruns>>

\* setupChanged(sr, bf) delivered to processor p while streaming_ had value s.
Notification(p, sr, bf, s) == [proc |-> p, sr |-> sr, bf |-> bf, streaming |-> s]

\* StubAudioInterface::initialize
StubInitialize(d, sr, bf) ==
    /\ Running /\ ControlFree /\ d \in live /\ ~IsASIO(d)
    /\ sample_rate' = [sample_rate EXCEPT ![d] = sr]
    /\ buffer_size' = [buffer_size EXCEPT ![d] = bf]
    /\ initialized' = [initialized EXCEPT ![d] = TRUE]
    /\ call' = Returned("initialize", d, NULL, sr, bf, "true", {}, << >>)
    /\ UNCHANGED <<asio_enabled, live, streaming, processor, setup, count_at_stop,
                   released, asioOnly, process_calls, periods, clsVars, resources, gm>>

\* A faulty startStreaming guard: the null-processor test is missing.
StartRejectedNoNullCheck(d, p) == ~initialized[d]

\* The guard of startStreaming (both implementations): !initialized_ || !processor
StartRejected(d, p) == ~initialized[d] \/ p = NULL

\* StubAudioInterface::startStreaming
StubStartStreaming(d, p) ==
    /\ Running /\ ControlFree /\ d \in live /\ ~IsASIO(d)
    /\ IF StartRejected(d, p)
       THEN /\ call' = Returned("startStreaming", d, p, 0, 0, "false", {}, << >>)
            /\ UNCHANGED <<processor, setup, streaming, count_at_stop, released,
                           periods>>
       ELSE /\ processor' = [processor EXCEPT ![d] = p]
            /\ setup' = [setup EXCEPT ![p] = <<sample_rate[d], buffer_size[d]>>]
            /\ streaming' = [streaming EXCEPT ![d] = TRUE]
            /\ count_at_stop' = [count_at_stop EXCEPT ![d] = NoStop]
            /\ released' = [released EXCEPT ![d] = NULL]
            /\ periods' = [periods EXCEPT ![d] = 0]
            /\ call' = Returned("startStreaming", d, p, 0, 0, "true",
                          {Notification(p, sample_rate[d], buffer_size[d], streaming[d])},
                          << >>)
    /\ UNCHANGED <<asio_enabled, live, initialized, sample_rate, buffer_size, asioOnly,
                   process_calls, clsVars, resources, gm>>

\* A faulty stopStreaming guard: the early return is missing.
StopNeverSkipped(d) == FALSE

\* The guard of stopStreaming (both implementations): if (!streaming_) return;
StopSkipped(d) == ~streaming[d]

\* StubAudioInterface::stopStreaming
StubStopStreaming(d) ==
    /\ Running /\ ControlFree /\ d \in live /\ ~IsASIO(d)
    /\ IF StopSkipped(d)
       THEN UNCHANGED <<streaming, processor, released>>
       ELSE /\ streaming' = [streaming EXCEPT ![d] = FALSE]
            /\ processor' = [processor EXCEPT ![d] = NULL]
            /\ released' = [released EXCEPT ![d] = processor[d]]
    /\ count_at_stop' = [count_at_stop EXCEPT ![d] = <<callback_count[d]>>]
    /\ call' = Returned("stopStreaming", d, NULL, 0, 0, "void", {}, << >>)
    /\ UNCHANGED <<asio_enabled, live, initialized, sample_rate, buffer_size, setup,
                   asioOnly, process_calls, periods, clsVars, resources, gm>>

\* StubAudioInterface::shutdown
StubShutdown(d) ==
    /\ Running /\ ControlFree /\ d \in live /\ ~IsASIO(d)
    /\ IF ~initialized[d]
       THEN UNCHANGED <<initialized, streaming, processor, released, count_at_stop>>
       ELSE /\ initialized' = [initialized EXCEPT ![d] = FALSE]
            /\ IF streaming[d]
               THEN /\ streaming' = [streaming EXCEPT ![d] = FALSE]
                    /\ processor' = [processor EXCEPT ![d] = NULL]
                    /\ released' = [released EXCEPT ![d] = processor[d]]
                    /\ count_at_stop' = [count_at_stop EXCEPT ![d] = <<callback_count[d]>>]
               ELSE UNCHANGED <<streaming, processor, released, count_at_stop>>
    /\ call' = Returned("shutdown", d, NULL, 0, 0, "void", {}, << >>)
    /\ UNCHANGED <<asio_enabled, live, sample_rate, buffer_size, setup, asioOnly,
                   process_calls, periods, clsVars, resources, gm>>

(***************************************************************************)
(* ASIOInterface: the control-thread operations.                           *)
(* asio_available_ can be true only in a build with the SDK, so the        *)
(* branches under #if ASIO_ENABLED are the ones taken when it is true.     *)
(***************************************************************************)
\* ASIOInterface::initializeASIODriver, given what the enumeration returned:
\* fails when no driver is found, otherwise selects drivers[0].
DriverInitialized(drivers) == drivers # << >>

\* A faulty selectASIODriver: it loads the named driver at every call.
SelectASIODriverLoads(r) == [r EXCEPT !.driver_loaded = TRUE, !.loads = @ + 1]

\* ASIOInterface::selectASIODriver in a build with the SDK: a placeholder that
\* reports success and loads nothing.
SelectASIODriver(r) == r

\* A faulty initialize: the driver's failure is passed on to the caller.
InitializeReturnPropagates(driverOK) == IF driverOK THEN "true" ELSE "false"

\* What ASIOInterface::initialize returns; driverOK is false when
\* initializeASIODriver was called and failed: true on both branches.
InitializeReturn(driverOK) == "true"

\* The metrics the callback maintains, and the count of processAudio calls.
rtVars == <<measured_latency, buffer_underruns, process_calls>>

\* ASIOInterface::initialize
ASIOInitialize(d, sr, bf, drivers) ==
    /\ Running /\ ControlFree /\ d \in live /\ IsASIO(d)
    /\ sample_rate' = [sample_rate EXCEPT ![d] = sr]
    /\ buffer_size' = [buffer_size EXCEPT ![d] = bf]
    /\ initialized' = [initialized EXCEPT ![d] = TRUE]
    /\ IF ~asio_available[d]
       THEN UNCHANGED <<asio_available, driver_name, acquisitions, resources>>
       ELSE IF DriverInitialized(drivers)
            THEN /\ acquisitions[d] < MaxAcquire
                 /\ acquisitions' = [acquisitions EXCEPT ![d] = @ + 1]
                 /\ resources' = [resources EXCEPT ![d] = SelectASIODriver(@)]
                 /\ driver_name' = [driver_name EXCEPT ![d] = drivers[1]]
                 /\ UNCHANGED asio_available
            ELSE /\ asio_available' = [asio_available EXCEPT ![d] = FALSE]
                 /\ UNCHANGED <<driver_name, acquisitions, resources>>
    /\ call' = Returned("initialize", d, NULL, sr, bf, InitializeReturn(asio_available[d] => DriverInitialized(drivers)),
                        {}, IF asio_available[d]
                            THEN <<IF DriverInitialized(drivers)
                                   THEN "initializeASIODriver=true"
                                   ELSE "initializeASIODriver=false">>
                            ELSE << >>)
    /\ UNCHANGED <<asio_enabled, live, streaming, processor, callback_count,
                   current_instance, driver_started, cb, setup, count_at_stop, released,
                   rtVars, periods, clsVars, gm>>

\* ASIOInterface::startStreaming; startOK is whether ASIOStart() returns ASE_OK.
ASIOStartStreaming(d, p, startOK) ==
    /\ Running /\ ControlFree /\ d \in live /\ IsASIO(d)
    /\ IF StartRejected(d, p)
       THEN /\ call' = Returned("startStreaming", d, p, 0, 0, "false", {}, << >>)
            /\ UNCHANGED <<processor, streaming, current_instance, driver_started,
                           count_at_stop, released, periods>>
       ELSE /\ processor' = [processor EXCEPT ![d] = p]
            /\ IF ~asio_available[d]
               THEN /\ streaming' = [streaming EXCEPT ![d] = TRUE]
                    /\ periods' = [periods EXCEPT ![d] = 0]
                    /\ count_at_stop' = [count_at_stop EXCEPT ![d] = NoStop]
                    /\ released' = [released EXCEPT ![d] = NULL]
                    /\ call' = Returned("startStreaming", d, p, 0, 0, "true", {}, << >>)
                    /\ UNCHANGED <<current_instance, driver_started>>
               ELSE /\ current_instance' = d
                    /\ IF startOK
                       THEN /\ streaming' = [streaming EXCEPT ![d] = TRUE]
                            /\ driver_started' = TRUE
                            /\ periods' = [periods EXCEPT ![d] = 0]
                            /\ count_at_stop' = [count_at_stop EXCEPT ![d] = NoStop]
                            /\ released' = [released EXCEPT ![d] = NULL]
                            /\ call' = Returned("startStreaming", d, p, 0, 0, "true",
                                                {}, <<"ASIOStart=ASE_OK">>)
                       ELSE /\ call' = Returned("startStreaming", d, p, 0, 0, "false",
                                                {}, <<"ASIOStart=error">>)
                            /\ UNCHANGED <<streaming, driver_started, count_at_stop,
                                           released, periods>>
    /\ UNCHANGED <<asio_enabled, live, initialized, asio_available, sample_rate,
                   buffer_size, driver_name, callback_count, cb, setup, acquisitions,
                   rtVars, clsVars, resources, gm>>

\* ASIOInterface::stopStreaming
ASIOStopStreaming(d) ==
    /\ Running /\ ControlFree /\ d \in live /\ IsASIO(d)
    /\ IF StopSkipped(d)
       THEN /\ call' = Returned("stopStreaming", d, NULL, 0, 0, "void", {}, << >>)
            /\ UNCHANGED <<streaming, processor, current_instance, driver_started,
                           released>>
       ELSE /\ driver_started' = IF asio_available[d] THEN FALSE ELSE driver_started
            /\ streaming' = [streaming EXCEPT ![d] = FALSE]
            /\ processor' = [processor EXCEPT ![d] = NULL]
            /\ current_instance' = NULL
            /\ released' = [released EXCEPT ![d] = processor[d]]
            /\ call' = Returned("stopStreaming", d, NULL, 0, 0, "void", {},
                                IF asio_available[d] THEN <<"ASIOStop">> ELSE << >>)
    /\ count_at_stop' = [count_at_stop EXCEPT ![d] = <<callback_count[d]>>]
    /\ UNCHANGED <<asio_enabled, live, initialized, asio_available, sample_rate,
                   buffer_size, driver_name, callback_count, cb, setup, acquisitions,
                   rtVars, periods, clsVars, resources, gm>>

\* ASIOInterface::cleanupASIO, called by shutdown in a build with the SDK.  The
\* buffers, channel arrays and driver_loaded flag it releases are never set by
\* this code, so it leaves the fields as they are.
CleanupASIO == IF asio_enabled THEN <<"cleanupASIO">> ELSE << >>

\* The resource fields as cleanupASIO leaves them: every array that is set is
\* deleted, and a loaded driver is released by one ASIOExit.
AfterCleanupASIO(r) ==
    [driver_loaded |-> FALSE, buffer_infos |-> NULL, input_channels |-> NULL,
     output_channels |-> NULL,
     loads |-> IF r.driver_loaded THEN r.loads - 1 ELSE r.loads]

\* The number of driver resources a device holds: loaded drivers, buffer infos
\* and channel-info arrays.
ResourcesHeld(d) ==
    resources[d].loads
      + Cardinality({f \in {"buffer_infos", "input_channels", "output_channels"} :
                        resources[d][f] # NULL})

\* ASIOInterface::shutdown (stopStreaming when streaming, cleanupASIO, initialized_ = false)
ASIOShutdown(d) ==
    /\ Running /\ ControlFree /\ d \in live /\ IsASIO(d)
    /\ IF ~initialized[d]
       THEN /\ call' = Returned("shutdown", d, NULL, 0, 0, "void", {}, << >>)
            /\ UNCHANGED <<initialized, streaming, processor, current_instance,
                           driver_started, released, count_at_stop, acquisitions,
                           resources>>
       ELSE /\ initialized' = [initialized EXCEPT ![d] = FALSE]
            /\ acquisitions' = [acquisitions EXCEPT ![d] = 0]
            /\ resources' = [resources EXCEPT ![d] = IF asio_enabled
                                                       THEN AfterCleanupASIO(@) ELSE @]
            /\ IF streaming[d]
               THEN /\ driver_started' = IF asio_available[d] THEN FALSE ELSE driver_started
                    /\ streaming' = [streaming EXCEPT ![d] = FALSE]
                    /\ processor' = [processor EXCEPT ![d] = NULL]
                    /\ current_instance' = NULL
                    /\ released' = [released EXCEPT ![d] = processor[d]]
                    /\ count_at_stop' = [count_at_stop EXCEPT ![d] = <<callback_count[d]>>]
                    /\ call' = Returned("shutdown", d, NULL, 0, 0, "void", {},
                                  (IF asio_available[d] THEN <<"ASIOStop">> ELSE << >>)
                                      \o CleanupASIO)
               ELSE /\ call' = Returned("shutdown", d, NULL, 0, 0, "void", {},
                                         CleanupASIO)
                    /\ UNCHANGED <<streaming, processor, current_instance,
                                   driver_started, released, count_at_stop>>
    /\ UNCHANGED <<asio_enabled, live, asio_available, sample_rate, buffer_size,
                   driver_name, callback_count, cb, setup, rtVars, periods,
                   clsVars, gm>>

(***************************************************************************)
(* The const accessors.  A latency is a number of milliseconds, kept as the *)
(* exact fraction <<numerator, denominator>> in lowest terms; the rounding *)
(* of the double arithmetic is not modelled.                               *)
(***************************************************************************)
SimulatedChannels == 8
\* asio_data_->input_channels_count and output_channels_count, which only the
\* ASIOData constructor assigns.
DriverChannels == 0
\* asio_data_->input_latency + asio_data_->output_latency, likewise.
DriverLatencySamples == 0

RECURSIVE GCD(_, _)
GCD(a, b) == IF b = 0 THEN a ELSE GCD(b, a % b)

\* n / d milliseconds
Millis(n, d) == <<n \div GCD(n, d), d \div GCD(n, d)>>

IsInitialized(d) == initialized[d]
IsASIOAvailable(d) == IsASIO(d) /\ asio_available[d]

\* getInputChannelCount and getOutputChannelCount (the same in both classes)
GetChannelCount(d) ==
    IF ~IsASIO(d) \/ ~asio_available[d] THEN SimulatedChannels
    ELSE IF asio_enabled THEN DriverChannels
    ELSE SimulatedChannels

\* (buffer_size_ / sample_rate_) * 1000.0
TheoreticalLatency(d) == Millis(buffer_size[d] * 1000, sample_rate[d])

\* getCurrentLatency
GetCurrentLatency(d) ==
    IF ~IsASIO(d) \/ ~asio_available[d] THEN TheoreticalLatency(d)
    ELSE IF asio_enabled
         THEN IF measured_latency[d] > 0
              THEN Millis(measured_latency[d], 1000)
              ELSE Millis((DriverLatencySamples + buffer_size[d]) * 1000, sample_rate[d])
         ELSE TheoreticalLatency(d)

(***************************************************************************)
(* The driver thread (a build with the SDK, driver started).               *)
(* bufferSwitchCallback reads current_instance_ and processor_ with no     *)
(* synchronisation while the control thread writes them: a data race.      *)
(* After the entry check, each later read yields either the value now in   *)
(* memory or the value loaded at the check (kept in a register or not yet  *)
(* visible to this thread); a null value that is dereferenced ends the     *)
(* process.                                                                *)
(***************************************************************************)
ctlOnly == <<asio_enabled, live, initialized, streaming, asio_available, buffer_size,
             processor, driver_name, current_instance, driver_started, setup,
             acquisitions, count_at_stop, released, periods, clsVars, resources>>

\* The intervals between two callbacks the clock can measure, in microseconds.
Gaps == {1000}

Crashed == [IdleCb EXCEPT !.pc = "crashed"]

\* The values a racy re-read of current_instance_ can yield.
LoadInstance == {current_instance, cb.inst}
\* The values a racy re-read of inst->processor_ can yield.
LoadProcessor(inst) == {processor[inst], cb.proc}

\* asio_data_->cpu_usage_percent, which only the ASIOData constructor assigns.
CpuUsagePercent == 0

\* The metric values device d holds: what a getMetrics that read all three at
\* this instant would return.
MetricsTuple(d) == <<GetCurrentLatency(d), CpuUsagePercent, buffer_underruns[d]>>

\* A step of the driver thread during a getMetrics call: the values the
\* device holds after it are among those held during the call.
Observed ==
    IF gm.pc = "reading"
    THEN [gm EXCEPT !.seen = @ \cup {MetricsTuple(d)' : d \in {gm.dev}}]
    ELSE gm

\* The device whose driver fires the callbacks.
DriverDevice == "asio1"

\* bufferSwitchCallback, entry: if (!current_instance_ || !current_instance_->processor_) return;
BufferSwitchEnter ==
    /\ Running /\ asio_enabled /\ driver_started
    /\ cb.pc = "idle"
    /\ \A d \in Devices : callback_count[d] < MaxCallbacks
    /\ IF current_instance = NULL \/ processor[current_instance] = NULL
       THEN /\ cb' = IdleCb
            /\ call' = CallbackReturned(DriverDevice, callback_count[DriverDevice], {})
       ELSE /\ cb' = [IdleCb EXCEPT !.pc = "checked", !.inst = current_instance,
                                    !.proc = processor[current_instance],
                                    !.count0 = callback_count[DriverDevice]]
            /\ call' = NoCall
    /\ UNCHANGED <<ctlOnly, sample_rate, callback_count, rtVars>>
    /\ gm' = Observed

\* bufferSwitchCallback, metrics: measured_latency_ms = now - last_callback_time
\* (when callback_count > 0); last_callback_time = now; callback_count++
BufferSwitchCount ==
    /\ cb.pc = "checked"
    /\ \E inst \in LoadInstance, gap \in Gaps :
          IF inst = NULL
          THEN cb' = Crashed /\ UNCHANGED <<callback_count, measured_latency>>
          ELSE /\ measured_latency' = IF callback_count[inst] > 0
                                      THEN [measured_latency EXCEPT ![inst] = gap]
                                      ELSE measured_latency
               /\ callback_count' = [callback_count EXCEPT ![inst] = @ + 1]
               /\ cb' = [cb EXCEPT !.pc = "counted",
                                   !.events = @ \cup {"timestamp", "callback_count++"}]
    /\ call' = NoCall
    /\ UNCHANGED <<ctlOnly, sample_rate, buffer_underruns, process_calls>>
    /\ gm' = Observed

\* What building the buffers of a callback does: MultiChannelBuffer
\* inputs(getInputChannelCount()), outputs(getOutputChannelCount()) and
\* channel.resize(buffer_size_, 0.0f) for each channel allocate from the heap
\* unless there is no channel.
Allocations(inst) ==
    IF GetChannelCount(inst) > 0 /\ buffer_size[inst] > 0 THEN {"allocate"} ELSE {}

\* bufferSwitchCallback, processing: the buffers are built and
\* current_instance_->processor_->processAudio(inputs, outputs, buffer_size_) is entered.
BufferSwitchProcess ==
    /\ cb.pc = "counted"
    /\ \E inst \in LoadInstance :
          IF inst = NULL
          THEN cb' = Crashed /\ UNCHANGED process_calls
          ELSE \E p \in LoadProcessor(inst) :
                  IF p = NULL
                  THEN cb' = Crashed /\ UNCHANGED process_calls
                  ELSE /\ cb' = [cb EXCEPT !.pc = "processing", !.proc = p,
                                           !.n = buffer_size[inst],
                                           !.sr = sample_rate[inst],
                                           !.events = @ \cup Allocations(inst)
                                                          \cup {"processAudio"}]
                       /\ process_calls' = [process_calls EXCEPT ![inst] = @ + 1]
    /\ call' = NoCall
    /\ UNCHANGED <<ctlOnly, sample_rate, callback_count, measured_latency,
                   buffer_underruns>>
    /\ gm' = Observed

\* What processAudio can throw: nothing, an exception derived from
\* std::exception, or an object of any other type.
Thrown == {"nothing", "std::exception", "other"}

\* The only handler of bufferSwitchCallback is catch (const std::exception&).
Caught(thrown) == thrown = "std::exception"

\* bufferSwitchCallback: processAudio returns or throws, having taken longer
\* than the nominal period (overran) or not; the handler of std::exception
\* counts an underrun; the callback returns.  An exception no handler catches
\* leaves the callback and unwinds into the driver that called it, which
\* terminates the process or abandons the callback.
BufferSwitchReturn ==
    /\ cb.pc = "processing"
    /\ \E overran \in BOOLEAN, thrown \in Thrown, inst \in LoadInstance :
          LET threw == thrown # "nothing"
              events == cb.events \cup (IF overran THEN {"overran"} ELSE {})
                                  \cup (IF threw THEN {"threw"} ELSE {})
          IN  IF ~threw
              THEN /\ cb' = IdleCb
                   /\ call' = CallbackReturned(DriverDevice, cb.count0, events)
                   /\ UNCHANGED buffer_underruns
              ELSE IF ~Caught(thrown)
              THEN /\ \/ /\ cb' = [Crashed EXCEPT !.events = {"escaped"}]
                         /\ call' = NoCall
                      \/ /\ cb' = IdleCb
                         /\ call' = CallbackReturned(DriverDevice, cb.count0,
                                                     events \cup {"escaped"})
                   /\ UNCHANGED buffer_underruns
              ELSE IF inst = NULL
              THEN /\ cb' = Crashed
                   /\ call' = NoCall
                   /\ UNCHANGED buffer_underruns
              ELSE /\ cb' = IdleCb
                   /\ buffer_underruns' = [buffer_underruns EXCEPT ![inst] = @ + 1]
                   /\ call' = CallbackReturned(DriverDevice, cb.count0,
                                               events \cup {"buffer_underruns++"})
    /\ UNCHANGED <<ctlOnly, sample_rate, callback_count, measured_latency,
                   process_calls>>
    /\ gm' = Observed

\* sampleRateDidChangeCallback(sRate)
SampleRateDidChange(sRate) ==
    /\ Running /\ asio_enabled /\ driver_started
    /\ sample_rate' = IF current_instance # NULL
                      THEN [sample_rate EXCEPT ![current_instance] = sRate]
                      ELSE sample_rate
    /\ call' = NoCall
    /\ UNCHANGED <<ctlOnly, callback_count, cb, rtVars>>
    /\ gm' = Observed

(***************************************************************************)
(* The specification.                                                      *)
(***************************************************************************)
Next ==
    \/ \E d \in Devices, sr \in ArgRates, bf \in ArgBuffers : StubInitialize(d, sr, bf)
    \/ \E d \in Devices, p \in Processors \cup {NULL} : StubStartStreaming(d, p)
    \/ \E d \in Devices : StubStopStreaming(d)
    \/ \E d \in Devices : StubShutdown(d)
    \/ \E d \in Devices, sr \in ArgRates, bf \in ArgBuffers, drivers \in DriverLists :
          ASIOInitialize(d, sr, bf, drivers)
    \/ \E d \in Devices, p \in Processors \cup {NULL}, startOK \in BOOLEAN :
          ASIOStartStreaming(d, p, startOK)
    \/ \E d \in Devices : ASIOStopStreaming(d)
    \/ \E d \in Devices : ASIOShutdown(d)
    \/ BufferSwitchEnter
    \/ BufferSwitchCount
    \/ BufferSwitchProcess
    \/ BufferSwitchReturn
    \/ \E sRate \in ArgRates : SampleRateDidChange(sRate)

Spec == Init /\ [][Next]_vars

(***************************************************************************)
(* getMetrics on the control thread while the driver thread runs callbacks. *)
(* ASIOInterface::getMetrics takes no lock: it reads the latency, then     *)
(* cpu_usage_percent and buffer_underruns, and steps of the driver thread  *)
(* can fall between the reads.                                             *)
(***************************************************************************)
\* getMetrics, first read: metrics.latency_ms = getCurrentLatency()
GetMetricsRead(d) ==
    /\ Running /\ ControlFree /\ d \in live /\ IsASIO(d)
    /\ gm' = [pc |-> "reading", dev |-> d, latency |-> GetCurrentLatency(d),
              result |-> << >>, seen |-> {MetricsTuple(d)}]
    /\ call' = NoCall
    /\ UNCHANGED <<asio_enabled, live, initialized, streaming, asio_available,
                   sample_rate, buffer_size, processor, driver_name, callback_count,
                   current_instance, driver_started, cb, setup, acquisitions,
                   count_at_stop, released, rtVars, periods, clsVars, resources>>

\* getMetrics, the other reads and the return:
\* metrics.cpu_usage_percent = ...; metrics.buffer_underruns = ...; return metrics
GetMetricsReturn ==
    /\ gm.pc = "reading"
    /\ gm' = [gm EXCEPT !.pc = "returned",
                        !.result = <<gm.latency, CpuUsagePercent,
                                     buffer_underruns[gm.dev]>>]
    /\ call' = NoCall
    /\ UNCHANGED <<asio_enabled, live, initialized, streaming, asio_available,
                   sample_rate, buffer_size, processor, driver_name, callback_count,
                   current_instance, driver_started, cb, setup, acquisitions,
                   count_at_stop, released, rtVars, periods, clsVars, resources>>

\* A build with the SDK and the ASIO device, which is initialized and started
\* and whose metrics are read while the driver fires bufferSwitchCallback.
InitMetrics == Init /\ asio_enabled /\ live = {DriverDevice}

NextMetrics ==
    \/ \E d \in Devices, sr \in ArgRates, bf \in ArgBuffers, drivers \in DriverLists :
          ASIOInitialize(d, sr, bf, drivers)
    \/ \E d \in Devices, p \in Processors \cup {NULL}, startOK \in BOOLEAN :
          ASIOStartStreaming(d, p, startOK)
    \/ BufferSwitchEnter
    \/ BufferSwitchCount
    \/ BufferSwitchProcess
    \/ BufferSwitchReturn
    \/ \E d \in Devices : GetMetricsRead(d)
    \/ GetMetricsReturn

SpecMetrics == InitMetrics /\ [][NextMetrics]_vars

(***************************************************************************)
(* The fallback devices over time: a build without the SDK, in which every *)
(* ASIOInterface is in simulation mode, and the nominal buffer periods that *)
(* elapse while a device streams.  No code of either class runs when a     *)
(* period elapses: neither creates a thread or a timer.                    *)
(***************************************************************************)
\* Simulation mode: the stub, or an ASIOInterface with asio_available_ false.
SimulationMode(d) == ~IsASIO(d) \/ ~asio_available[d]

\* One nominal period (buffer_size_ / sample_rate_) passes while the client
\* sleeps between startStreaming and stopStreaming.
PeriodElapses(d) ==
    /\ d \in live /\ streaming[d] /\ SimulationMode(d)
    /\ periods[d] < MaxPeriods
    /\ periods' = [periods EXCEPT ![d] = @ + 1]
    /\ call' = NoCall
    /\ UNCHANGED <<asio_enabled, live, initialized, streaming, asio_available,
                   sample_rate, buffer_size, processor, driver_name, callback_count,
                   current_instance, driver_started, cb, setup, acquisitions,
                   count_at_stop, released, rtVars, clsVars, resources, gm>>

InitSim == Init /\ ~asio_enabled

NextSim ==
    \/ \E d \in Devices, sr \in ArgRates, bf \in ArgBuffers : StubInitialize(d, sr, bf)
    \/ \E d \in Devices, p \in Processors \cup {NULL} : StubStartStreaming(d, p)
    \/ \E d \in Devices : StubStopStreaming(d)
    \/ \E d \in Devices : StubShutdown(d)
    \/ \E d \in Devices, sr \in ArgRates, bf \in ArgBuffers, drivers \in DriverLists :
          ASIOInitialize(d, sr, bf, drivers)
    \/ \E d \in Devices, p \in Processors \cup {NULL}, startOK \in BOOLEAN :
          ASIOStartStreaming(d, p, startOK)
    \/ \E d \in Devices : ASIOStopStreaming(d)
    \/ \E d \in Devices : ASIOShutdown(d)
    \/ \E d \in Devices : PeriodElapses(d)

SpecSim == InitSim /\ [][NextSim]_vars

(***************************************************************************)
(* Two ASIOInterface objects in a build with the SDK.  current_instance_   *)
(* is a static member (asio_interface.h), one for both of them.  The       *)
(* control thread operates on both; the driver thread is left out.         *)
(***************************************************************************)
InitTwo == Constructed /\ asio_enabled /\ live = TwoDevices
                       /\ enumerated = << >> /\ detected = NotRun
                       /\ test_call = NoTestCall

NextTwo ==
    \/ \E d \in TwoDevices, drivers \in DriverLists :
          ASIOInitialize(d, SAMPLE_RATE_48K, BUFFER_SIZE_LOW, drivers)
    \/ \E d \in TwoDevices, p \in Processors, startOK \in BOOLEAN :
          ASIOStartStreaming(d, p, startOK)
    \/ \E d \in TwoDevices : ASIOStopStreaming(d)
    \/ \E d \in TwoDevices : ASIOShutdown(d)

SpecTwo == InitTwo /\ [][NextTwo]_vars

(***************************************************************************)
(* initialize called with any int arguments: the values a caller may pass  *)
(* include zero, negative and very large ones.                             *)
(***************************************************************************)
AnyRates == ArgRates \cup {0, -SAMPLE_RATE_48K, 1000 * SAMPLE_RATE_96K}
AnyBuffers == ArgBuffers \cup {0, -BUFFER_SIZE_LOW, 1000 * BUFFER_SIZE_LOW}

NextArgs ==
    \/ \E d \in Devices, sr \in AnyRates, bf \in AnyBuffers : StubInitialize(d, sr, bf)
    \/ \E d \in Devices, sr \in AnyRates, bf \in AnyBuffers, drivers \in DriverLists :
          ASIOInitialize(d, sr, bf, drivers)
    \/ \E d \in Devices : StubShutdown(d)
    \/ \E d \in Devices : ASIOShutdown(d)

SpecArgs == Init /\ [][NextArgs]_vars

(***************************************************************************)
(* The hardware classifier, ASIOInterface::getDetectedHardware.  A driver  *)
(* name is a sequence of characters, so that ::tolower and                 *)
(* std::string::find are computed as the code computes them.               *)
(***************************************************************************)
UpperCase == <<"A", "B", "C", "D", "E", "F", "G", "H", "I", "J", "K", "L", "M",
               "N", "O", "P", "Q", "R", "S", "T", "U", "V", "W", "X", "Y", "Z">>
LowerCase == <<"a", "b", "c", "d", "e", "f", "g", "h", "i", "j", "k", "l", "m",
               "n", "o", "p", "q", "r", "s", "t", "u", "v", "w", "x", "y", "z">>

\* ::tolower on one character
ToLowerChar(c) ==
    IF \E i \in DOMAIN UpperCase : UpperCase[i] = c
    THEN LowerCase[CHOOSE i \in DOMAIN UpperCase : UpperCase[i] = c]
    ELSE c

\* std::transform(lower_name.begin(), lower_name.end(), lower_name.begin(), ::tolower)
ToLower(name) == [i \in 1..Len(name) |-> ToLowerChar(name[i])]

\* lower_name.find(key) != std::string::npos
Find(name, key) ==
    \E i \in 1..(Len(name) - Len(key) + 1) : SubSeq(name, i, i + Len(key) - 1) = key

\* The keywords of the classifier.
Kw_apollo == <<"a", "p", "o", "l", "l", "o">>
Kw_x16 == <<"x", "1", "6">>
Kw_x8 == <<"x", "8">>
Kw_avantis == <<"a", "v", "a", "n", "t", "i", "s">>
Kw_allen == <<"a", "l", "l", "e", "n">>
Kw_sd9 == <<"s", "d", "9">>
Kw_digico == <<"d", "i", "g", "i", "c", "o">>
Kw_cl5 == <<"c", "l", "5">>
Kw_yamaha == <<"y", "a", "m", "a", "h", "a">>
Kw_x32 == <<"x", "3", "2">>
Kw_behringer == <<"b", "e", "h", "r", "i", "n", "g", "e", "r">>
Kw_scarlett == <<"s", "c", "a", "r", "l", "e", "t", "t">>
Kw_focusrite == <<"f", "o", "c", "u", "s", "r", "i", "t", "e">>
Kw_babyface == <<"b", "a", "b", "y", "f", "a", "c", "e">>
Kw_rme == <<"r", "m", "e">>

\* The words driver names are made of here, in the spelling a vendor may use.
Words ==
    {<<"A", "p", "o", "l", "l", "o">>,
     <<"X", "1", "6">>,
     <<"x", "8">>,
     <<"A", "V", "A", "N", "T", "I", "S">>,
     <<"A", "l", "l", "e", "n">>,
     <<"S", "D", "9">>,
     <<"D", "i", "G", "i", "C", "o">>,
     <<"c", "l", "5">>,
     <<"Y", "a", "m", "a", "h", "a">>,
     <<"X", "3", "2">>,
     <<"B", "e", "h", "r", "i", "n", "g", "e", "r">>,
     <<"S", "c", "a", "r", "l", "e", "t", "t">>,
     <<"F", "O", "C", "U", "S", "R", "I", "T", "E">>,
     <<"B", "a", "b", "y", "f", "a", "c", "e">>,
     <<"R", "M", "E">>,
     <<"D", "e", "v", "i", "c", "e">>}

Space == <<" ">>

RECURSIVE Join(_)
\* The words of ws, separated by spaces.
Join(ws) ==
    IF ws = << >> THEN << >>
    ELSE IF Len(ws) = 1 THEN ws[1]
    ELSE ws[1] \o Space \o Join(Tail(ws))

UADApolloX16Thunderbolt == Join(<<<<"U", "A", "D">>, <<"A", "p", "o", "l", "l", "o">>, <<"X", "1", "6">>, <<"T", "h", "u", "n", "d", "e", "r", "b", "o", "l", "t">>>>)
BehringerX32Core == Join(<<<<"B", "e", "h", "r", "i", "n", "g", "e", "r">>, <<"X", "3", "2">>, <<"C", "o", "r", "e">>>>)
UnbrandedDevice7 == Join(<<<<"U", "n", "b", "r", "a", "n", "d", "e", "d">>, <<"D", "e", "v", "i", "c", "e">>, <<"7">>>>)

\* The driver names enumerateASIODrivers may report: one word, two words, or
\* one of three product names.
DriverNames ==
    {Join(<<w>>) : w \in Words} \cup {Join(<<v, w>>) : v \in Words, w \in Words}
    \cup {UADApolloX16Thunderbolt, BehringerX32Core, UnbrandedDevice7}

RECURSIVE ListsUpTo(_, _)
\* The sequences of at most n elements of S.
ListsUpTo(S, n) ==
    IF n = 0 THEN {<< >>}
    ELSE LET shorter == ListsUpTo(S, n - 1)
         IN  shorter \cup {Append(l, x) : l \in shorter, x \in S}

\* The body of the loop of getDetectedHardware: what is pushed for one name.
Classify(name) ==
    LET lower_name == ToLower(name)
    IN  IF Find(lower_name, Kw_apollo)
        THEN IF Find(lower_name, Kw_x16) THEN <<"UAD_APOLLO_X16">>
             ELSE IF Find(lower_name, Kw_x8) THEN <<"UAD_APOLLO_X8">>
             ELSE << >>
        ELSE IF Find(lower_name, Kw_avantis) \/ Find(lower_name, Kw_allen)
        THEN <<"ALLEN_HEATH_AVANTIS">>
        ELSE IF Find(lower_name, Kw_sd9) \/ Find(lower_name, Kw_digico)
        THEN <<"DIGICO_SD9">>
        ELSE IF Find(lower_name, Kw_cl5) \/ Find(lower_name, Kw_yamaha)
        THEN <<"YAMAHA_CL5">>
        ELSE IF Find(lower_name, Kw_x32) \/ Find(lower_name, Kw_behringer)
        THEN <<"BEHRINGER_X32">>
        ELSE IF Find(lower_name, Kw_scarlett) \/ Find(lower_name, Kw_focusrite)
        THEN <<"FOCUSRITE_SCARLETT">>
        ELSE IF Find(lower_name, Kw_babyface) \/ Find(lower_name, Kw_rme)
        THEN <<"RME_BABYFACE">>
        ELSE <<"GENERIC_ASIO">>

RECURSIVE ClassifyAll(_)
\* for (const auto& name : driver_names) ...
ClassifyAll(names) ==
    IF names = << >> THEN << >>
    ELSE Classify(Head(names)) \o ClassifyAll(Tail(names))

\* ASIOInterface::getDetectedHardware: empty in a build without the SDK.
GetDetectedHardware ==
    /\ detected = NotRun
    /\ detected' = IF asio_enabled THEN ClassifyAll(enumerated) ELSE << >>
    /\ UNCHANGED <<asio_enabled, live, initialized, streaming, asio_available,
                   sample_rate, buffer_size, processor, driver_name, callback_count,
                   current_instance, driver_started, cb, setup, acquisitions,
                   count_at_stop, released, call, rtVars, periods, enumerated, gm,
                   resources, test_call>>

\* enumerateASIODrivers returns no name in a build without the SDK.
InitClassify ==
    /\ Constructed
    /\ enumerated \in (IF asio_enabled THEN ListsUpTo(DriverNames, MaxDrivers)
                                      ELSE {<< >>})
    /\ detected = NotRun
    /\ test_call = NoTestCall

NextClassify == GetDetectedHardware

SpecClassify == InitClassify /\ [][NextClassify]_vars

\* The characters of the driver names of DriverLists.
Spelling(name) ==
    IF name = "Apollo X16"
    THEN Join(<<<<"A", "p", "o", "l", "l", "o">>, <<"X", "1", "6">>>>)
    ELSE << >>

\* ASIOInterface::getType in hardware mode, for the characters of driver_name:
\* it looks for "Apollo" and then "X16" or "X8", in the case written.
TypeOfDriverName(name) ==
    IF Find(name, <<"A", "p", "o", "l", "l", "o">>)
    THEN IF Find(name, <<"X", "1", "6">>) THEN "UAD_APOLLO_X16"
         ELSE IF Find(name, <<"X", "8">>) THEN "UAD_APOLLO_X8"
         ELSE "GENERIC_ASIO"
    ELSE "GENERIC_ASIO"

\* StubAudioInterface::getType returns hardware_type_, which only the
\* constructor assigns; ASIOInterface::getType returns GENERIC_ASIO in
\* simulation mode and in a build without the SDK.
GetType(d) ==
    IF ~IsASIO(d) \/ ~asio_available[d] THEN "GENERIC_ASIO"
    ELSE IF asio_enabled THEN TypeOfDriverName(Spelling(driver_name[d]))
         ELSE "GENERIC_ASIO"

RECURSIVE TypesOfDriverNames(_)
\* What getType returns on devices bound, in hardware mode, to each of names.
TypesOfDriverNames(names) ==
    IF names = << >> THEN << >>
    ELSE <<TypeOfDriverName(Head(names))>> \o TypesOfDriverNames(Tail(names))

(***************************************************************************)
(* TestAudioProcessor::processAudio with generate_tone_ false, the         *)
(* processor createTestProcessor(false) returns.  A buffer is a sequence   *)
(* of samples, a MultiChannelBuffer a sequence of buffers; the sample 0 is *)
(* 0.0f.                                                                   *)
(***************************************************************************)
\* Bounds on the shapes of the buffers processAudio is called with.
MaxChannels == 2
MaxFrames == 2

\* The sample at index i of input channel ch: every position holds its own
\* non-zero value.
InputSample(ch, i) == ch * (MaxFrames + 2) + i

\* What an output buffer holds before the call.
StaleSample == (MaxChannels + 2) * (MaxFrames + 2)

\* The input buffers of the given channel lengths.
InputBuffers(lens) ==
    [ch \in 1..Len(lens) |-> [i \in 1..lens[ch] |-> InputSample(ch, i)]]

\* The output buffers of the given channel lengths, as the caller passes them.
OutputBuffers(lens) ==
    [ch \in 1..Len(lens) |-> [i \in 1..lens[ch] |-> StaleSample]]

\* The channel lengths of a MultiChannelBuffer.
Shapes == ListsUpTo(0..MaxFrames, MaxChannels)

\* A faulty sizing step: the output channels are left as the caller passed them.
ResizeNever(channel, n) == channel

\* if (channel.size() != num_samples) channel.resize(num_samples, 0.0f)
Resize(channel, n) ==
    IF Len(channel) # n
    THEN [i \in 1..n |-> IF i <= Len(channel) THEN channel[i] ELSE 0]
    ELSE channel

\* The outputs after processAudio(inputs, outputs, n) of the pass-through
\* processor: each channel is sized, then every sample below n that lies in
\* the channel is the input sample at the same place, or 0.0f without one.
PassThrough(inputs, outputs, n) ==
    [ch \in 1..Len(outputs) |->
        LET channel == Resize(outputs[ch], n)
        IN  [i \in 1..Len(channel) |->
                IF i <= n
                THEN IF ch <= Len(inputs) /\ i <= Len(inputs[ch])
                     THEN inputs[ch][i]
                     ELSE 0
                ELSE channel[i]]]

\* TestAudioProcessor::processAudio(inputs, outputs, num_samples)
TestProcessAudio ==
    /\ test_call.pc = "ready"
    /\ test_call' = [test_call EXCEPT
                        !.pc = "done",
                        !.outputs = PassThrough(test_call.inputs, @, test_call.n)]
    /\ UNCHANGED <<asio_enabled, live, initialized, streaming, asio_available,
                   sample_rate, buffer_size, processor, driver_name, callback_count,
                   current_instance, driver_started, cb, setup, acquisitions,
                   count_at_stop, released, call, rtVars, periods, enumerated,
                   detected, gm, resources>>

\* A caller has built the buffers and is about to call processAudio.
InitProcess ==
    /\ Constructed
    /\ ~asio_enabled /\ live = {"stub"}
    /\ enumerated = << >>
    /\ detected = NotRun
    /\ \E ins \in Shapes, outs \in Shapes, n \in 0..MaxFrames :
          test_call = [pc |-> "ready", n |-> n,
                       inputs |-> InputBuffers(ins), inputs0 |-> InputBuffers(ins),
                       outputs |-> OutputBuffers(outs),
                       outputs0 |-> OutputBuffers(outs)]

NextProcess == TestProcessAudio

SpecProcess == InitProcess /\ [][NextProcess]_vars

(***************************************************************************)
(* Properties.  `call` is the control-thread call that has just returned:  *)
(* call.pre is the device's state when it was made, call.notified the      *)
(* setupChanged notifications it delivered, call.drv the driver functions  *)
(* it called.                                                              *)
(***************************************************************************)

\* C1: startStreaming(p) on a device that is not initialized returns false and
\* leaves the device uninitialized, not streaming, with no processor bound, and
\* without having called p.setupChanged.
C1_StartUninitializedFails ==
    (call.op = "startStreaming" /\ ~call.pre.initialized) =>
        /\ call.ret = "false"
        /\ ~initialized[call.dev]
        /\ ~streaming[call.dev]
        /\ processor[call.dev] = NULL
        /\ call.notified = {}

\* C2: startStreaming with a null processor, in any device state, returns false
\* and changes nothing (flags, binding, configuration, back-reference).
C2_NullProcessorRejected ==
    (call.op = "startStreaming" /\ call.proc = NULL) =>
        /\ call.ret = "false"
        /\ Snapshot(call.dev) = call.pre
        /\ call.notified = {}
        /\ call.drv = << >>

\* C2 witness: a null-processor start has returned on a hardware-mode device that
\* was streaming with a processor bound and the back-reference set.
C2_Witness ==
    /\ call.op = "startStreaming" /\ call.proc = NULL
    /\ call.pre.streaming /\ call.pre.processor = "P1"
    /\ call.pre.current_instance = call.dev

\* C3: once stopStreaming has returned on a device, its callback_count is not
\* incremented again until a later successful startStreaming.
C3_Quiescence ==
    \A d \in Devices :
        count_at_stop[d] # NoStop => callback_count[d] = count_at_stop[d][1]

\* C4: after stopStreaming has returned, no processAudio call on the processor it
\* unbound is running (none is still in progress, none starts).
C4_StopSynchronizes ==
    \A d \in Devices :
        released[d] # NULL =>
            ~(cb.pc = "processing" /\ cb.inst = d /\ cb.proc = released[d])

\* C5: initialize on a device that is already initialized returns true and leaves
\* sample rate, buffer size, hardware/simulation mode, streaming flag and
\* processor binding as they were, whatever its arguments.
C5_InitializeIdempotent ==
    (call.op = "initialize" /\ call.pre.initialized) =>
        /\ call.ret = "true"
        /\ sample_rate[call.dev] = call.pre.sample_rate
        /\ buffer_size[call.dev] = call.pre.buffer_size
        /\ asio_available[call.dev] = call.pre.asio_available
        /\ streaming[call.dev] = call.pre.streaming
        /\ processor[call.dev] = call.pre.processor

\* C6: between two shutdowns a device acquires (enumerates and selects) a driver
\* at most once.
C6_SingleAcquisition ==
    \A d \in Devices : acquisitions[d] <= 1

\* C7: startStreaming(P) on a device already streaming with P returns true,
\* does not call P.setupChanged again, does not ask the driver to start again
\* and leaves the device state unchanged.
C7_RestartSameProcessorNoop ==
    (/\ call.op = "startStreaming" /\ call.pre.streaming
     /\ call.proc # NULL /\ call.proc = call.pre.processor) =>
        /\ call.ret = "true"
        /\ call.notified = {}
        /\ call.drv = << >>
        /\ Snapshot(call.dev) = call.pre

\* C8: a successful startStreaming(P) from Initialized has called
\* P.setupChanged(sample_rate, buffer_size) with the active configuration while
\* the device did not yet report streaming.
C8_SetupChangedOnStart ==
    (/\ call.op = "startStreaming" /\ call.ret = "true"
     /\ call.pre.initialized /\ ~call.pre.streaming) =>
        Notification(call.proc, sample_rate[call.dev], buffer_size[call.dev], FALSE)
            \in call.notified

\* C9: every processAudio call is made with the sample rate and frame count of
\* the most recent setupChanged delivered to that processor.
C9_ProcessMatchesSetup ==
    cb.pc = "processing" => setup[cb.proc] = <<cb.sr, cb.n>>

\* C10: stopStreaming on a streaming device leaves it initialized, not streaming,
\* with no processor bound and the configured sample rate and buffer size; on a
\* device that is not streaming it changes nothing and calls neither the driver
\* nor the processor.
C10_StopStreaming ==
    call.op = "stopStreaming" =>
        IF call.pre.streaming
        THEN /\ initialized[call.dev]
             /\ ~streaming[call.dev]
             /\ processor[call.dev] = NULL
             /\ sample_rate[call.dev] = call.pre.sample_rate
             /\ buffer_size[call.dev] = call.pre.buffer_size
        ELSE /\ Snapshot(call.dev) = call.pre
             /\ call.drv = << >>
             /\ call.notified = {}

\* C10 witness: a stopStreaming that found the device not streaming has returned
\* on a device whose earlier stopStreaming unbound a processor, with the
\* back-reference still set by a start the driver declined.
C10_Witness ==
    /\ call.op = "stopStreaming" /\ ~call.pre.streaming
    /\ released[call.dev] # NULL
    /\ call.pre.current_instance = call.dev

\* C11: shutdown ends with the device uninitialized, not streaming and with no
\* processor bound; nothing of the stop sequence follows the release of the
\* driver resources; on an uninitialized device it changes nothing.
C11_Shutdown ==
    call.op = "shutdown" =>
        /\ ~initialized[call.dev]
        /\ ~streaming[call.dev]
        /\ processor[call.dev] = NULL
        /\ \A i \in 1..Len(call.drv) :
              call.drv[i] = "cleanupASIO" => i = Len(call.drv)
        /\ ~call.pre.initialized =>
              (Snapshot(call.dev) = call.pre /\ call.drv = << >>)

\* C12: when ASIOStart does not return ASE_OK, startStreaming returns false and
\* the streaming flag, the processor binding and current_instance_ keep the
\* values they had before the call.
C12_DeclinedStartRestoresState ==
    (call.op = "startStreaming" /\ call.drv = <<"ASIOStart=error">>) =>
        /\ call.ret = "false"
        /\ streaming[call.dev] = call.pre.streaming
        /\ processor[call.dev] = call.pre.processor
        /\ current_instance = call.pre.current_instance

\* C13: while a simulation-mode device streams, callbacks are synthesized: once
\* N >= 2 nominal periods have elapsed since startStreaming, the processor's
\* processAudio has been invoked at least N - 1 times, and so never zero times.
C13_SimulationSynthesizesCallbacks ==
    \A d \in live :
        (streaming[d] /\ SimulationMode(d) /\ periods[d] >= 2) =>
            /\ process_calls[d] >= periods[d] - 1
            /\ process_calls[d] > 0

\* C14: initialize never fails for lack of hardware: whatever the SDK and the
\* driver initialization did, it returns true and the device is initialized;
\* and unless the driver was initialized by this call, the device is afterwards
\* in simulation mode: isASIOAvailable() is false, the channel counts are the
\* simulated ones and the latency is the theoretical one.
C14_InitializeNeverFails ==
    call.op = "initialize" =>
        /\ call.ret = "true"
        /\ IsInitialized(call.dev)
        /\ call.drv # <<"initializeASIODriver=true">> =>
              /\ ~IsASIOAvailable(call.dev)
              /\ GetChannelCount(call.dev) = SimulatedChannels
              /\ GetCurrentLatency(call.dev) = Millis(call.bf * 1000, call.sr)

\* C14 happens: initialize was called on a device whose SDK was loaded, the
\* driver could not be initialized, and the call returned true.
C14_Witness ==
    /\ call.op = "initialize"
    /\ call.pre.asio_available
    /\ call.drv = <<"initializeASIODriver=false">>
    /\ call.ret = "true"
    /\ ~IsASIOAvailable(call.dev)

\* C15: every bufferSwitchCallback the driver fires has, when it returns,
\* incremented callback_count by exactly one and recorded a timestamp, whether
\* or not a processor was bound.
C15_EveryPeriodCounted ==
    call.op = "bufferSwitch" =>
        /\ callback_count[call.dev] = call.pre.callback_count + 1
        /\ "timestamp" \in call.events

\* C16: a callback that ran the processor increments buffer_underruns (by one)
\* exactly when the processing took longer than the nominal period
\* buffer_size / sample_rate.
C16_UnderrunIffOverrun ==
    (call.op = "bufferSwitch" /\ "processAudio" \in call.events) =>
        ("buffer_underruns++" \in call.events <=> "overran" \in call.events)

\* C17: getCurrentLatency depends only on the buffer size, the sample rate and
\* the driver-reported latencies: no step of a bufferSwitchCallback changes the
\* value it returns, for any device.
C17_LatencyIndependentOfCallbacks ==
    [][cb' # cb => \A d \in Devices : GetCurrentLatency(d)' = GetCurrentLatency(d)]_vars

\* C18: on a device in simulation mode, getCurrentLatency is exactly
\* bf * 1000 / sr milliseconds when initialize(sr, bf) returns, and no step
\* other than an initialize of that device changes it afterwards.
C18_FallbackLatencyExact ==
    [][\A d \in Devices :
          SimulationMode(d)' =>
              IF call'.op = "initialize" /\ call'.dev = d
              THEN GetCurrentLatency(d)' = Millis(call'.bf * 1000, call'.sr)
              ELSE GetCurrentLatency(d)' = GetCurrentLatency(d)]_vars

\* The keywords that make a name one of a known model.
Keywords ==
    {Kw_apollo, Kw_avantis, Kw_allen, Kw_sd9, Kw_digico, Kw_cl5, Kw_yamaha, Kw_x32,
     Kw_behringer, Kw_scarlett, Kw_focusrite, Kw_babyface, Kw_rme}

\* C19: classification is total: getDetectedHardware returns one entry per
\* enumerated driver name, in order, and the entry of a name that contains no
\* keyword is GENERIC_ASIO.
C19_ClassificationTotal ==
    detected # NotRun =>
        /\ Len(detected) = Len(enumerated)
        /\ \A i \in 1..Len(enumerated) :
              (\A k \in Keywords : ~Find(ToLower(enumerated[i]), k)) =>
                  detected[i] = "GENERIC_ASIO"

\* The vendor families in the order the classifier tests them, each with its
\* keywords and the hardware types it can yield.
Families ==
    <<[keys |-> {Kw_apollo}, types |-> {"UAD_APOLLO_X16", "UAD_APOLLO_X8"}],
      [keys |-> {Kw_avantis, Kw_allen}, types |-> {"ALLEN_HEATH_AVANTIS"}],
      [keys |-> {Kw_sd9, Kw_digico}, types |-> {"DIGICO_SD9"}],
      [keys |-> {Kw_cl5, Kw_yamaha}, types |-> {"YAMAHA_CL5"}],
      [keys |-> {Kw_x32, Kw_behringer}, types |-> {"BEHRINGER_X32"}],
      [keys |-> {Kw_scarlett, Kw_focusrite}, types |-> {"FOCUSRITE_SCARLETT"}],
      [keys |-> {Kw_babyface, Kw_rme}, types |-> {"RME_BABYFACE"}]>>

\* Whether name, whatever its case, contains a keyword of the f-th family.
InFamily(name, f) == \E k \in Families[f].keys : Find(ToLower(name), k)

\* C20: keywords are matched whatever their case and in the fixed order of
\* the families: the entry of every enumerated name that matches a family is a
\* type of the first family it matches; and the three product names classify
\* as UAD_APOLLO_X16, BEHRINGER_X32 and GENERIC_ASIO.
C20_PriorityOrder ==
    (detected # NotRun /\ asio_enabled) =>
        /\ Len(detected) = Len(enumerated)
        /\ \A i \in 1..Len(enumerated) :
              LET name == enumerated[i]
              IN  /\ \A f \in DOMAIN Families :
                        (InFamily(name, f) /\ \A g \in 1..(f - 1) : ~InFamily(name, g))
                            => detected[i] \in Families[f].types
                  /\ name = UADApolloX16Thunderbolt => detected[i] = "UAD_APOLLO_X16"
                  /\ name = BehringerX32Core => detected[i] = "BEHRINGER_X32"
                  /\ name = UnbrandedDevice7 => detected[i] = "GENERIC_ASIO"

\* C21: the hardware identity of a device is immutable: no step taken while
\* the device is initialized (a later initialize, startStreaming,
\* stopStreaming, shutdown, a callback) changes what getType returns.
C21_TypeImmutable ==
    [][\A d \in Devices : initialized[d] => GetType(d)' = GetType(d)]_vars

\* C22: no step of a driver-invoked callback changes the initialized flag,
\* the streaming flag, the processor binding, the sample rate or the buffer
\* size of any device.
C22_CallbacksKeepLifecycle ==
    [][call'.op \in {"none", "bufferSwitch"} =>
          UNCHANGED <<initialized, streaming, processor, sample_rate, buffer_size>>]_vars

\* C23: the processor binding of a device is written only while the device
\* is not streaming: no step that leaves a streaming device streaming changes
\* its bound processor.
C23_BindingWrittenOnlyWhenStopped ==
    [][\A d \in Devices :
          (streaming[d] /\ streaming[d]') => processor[d]' = processor[d]]_vars

\* C24: no callback invocation allocates or resizes a buffer: neither the
\* callback in flight nor one that has returned has allocated.
C24_NoAllocationInCallback ==
    "allocate" \notin (cb.events \cup call.events)

\* C25: getMetrics returns a point-in-time snapshot: the tuple a call returns
\* is the tuple of metric values the device held at one instant during the
\* call.
C25_MetricsSnapshot ==
    gm.pc = "returned" => gm.result \in gm.seen

\* C26: current_instance_ is set before the driver is started and cleared only
\* after it has stopped: whenever the driver of a device is running and may
\* fire a callback, current_instance_ refers to that device.
C26_BackReferenceWhileDriverRuns ==
    driver_started => current_instance = DriverDevice

\* C27: devices are isolated: a lifecycle operation on one device leaves the
\* streaming flag, the processor binding and the callback back-reference of
\* every other device that is streaming as they were.
C27_DevicesIsolated ==
    [][\A d, e \in Devices :
          (d # e /\ call'.dev = d /\ streaming[e]) =>
              /\ streaming[e]' = streaming[e]
              /\ processor[e]' = processor[e]
              /\ (current_instance = e => current_instance' = e)]_vars

\* C28: repeating initialize and shutdown causes no resource growth: whenever a
\* shutdown has returned, the device holds no driver resource (no loaded
\* driver, no buffer infos, no channel-info array), after any number of cycles.
C28_NoResourceGrowth ==
    call.op = "shutdown" => ResourcesHeld(call.dev) = 0

\* C28 witness: a hardware-mode device that had selected a driver has been shut
\* down and has run cleanupASIO.
C28_Witness ==
    /\ call.op = "shutdown" /\ IsASIO(call.dev)
    /\ call.pre.initialized /\ call.pre.asio_available
    /\ call.pre.driver_name # ""
    /\ "cleanupASIO" \in {call.drv[i] : i \in DOMAIN call.drv}
    /\ ResourcesHeld(call.dev) = 0

\* C29: after initialize, whatever sample rate and buffer size were requested,
\* the active sample rate and buffer size are positive (requests outside the
\* supported range are replaced by values within it).
C29_ConfigurationWithinBounds ==
    call.op = "initialize" =>
        /\ sample_rate[call.dev] > 0
        /\ buffer_size[call.dev] > 0

\* C30: no exception thrown by processAudio, of whatever type, leaves
\* bufferSwitchCallback: the callback always returns normally to the driver.
C30_NoExceptionEscapes ==
    "escaped" \notin (cb.events \cup call.events)

\* C31: the latency metric a callback writes is the time its processAudio call
\* took: measured_latency_ms is written only by the step in which processAudio
\* ends, never before processAudio is entered.
C31_LatencyMeasuresProcessing ==
    [][\A d \in Devices :
          measured_latency[d]' # measured_latency[d] => cb.pc = "processing"]_vars

\* The devices streaming through the driver: in hardware mode and streaming.
HardwareStreaming == {d \in live : IsASIOAvailable(d) /\ streaming[d]}

\* C32: at most one hardware-mode device is streaming at any time, and the
\* callback back-reference points at every hardware-mode device that streams.
C32_OneHardwareStream ==
    /\ Cardinality(HardwareStreaming) <= 1
    /\ \A d \in HardwareStreaming : current_instance = d

\* C33: startStreaming with a non-null processor returns true if and only if
\* the device is streaming when the call returns.
C33_StartReportsStreaming ==
    (call.op = "startStreaming" /\ call.proc # NULL) =>
        (call.ret = "true" <=> streaming[call.dev])

\* C34: in every reachable state a streaming device is initialized and has a
\* processor bound, and a device that is not streaming has no processor bound.
C34_BindingExactlyWhileStreaming ==
    \A d \in Devices :
        /\ streaming[d] => initialized[d]
        /\ streaming[d] <=> processor[d] # NULL

\* C35: bufferSwitchCallback never dereferences a null current_instance_ or a
\* null processor_: every read it makes after its entry check sees a non-null
\* value, however stopStreaming interleaves with it.
C35_NoNullDereference ==
    cb # Crashed

\* C36: driver start and stop are paired: the driver is never left running for
\* a device that is not streaming; when the device that started it stops
\* streaming, the driver has been asked to stop.
C36_DriverStopPaired ==
    driver_started => streaming[DriverDevice]

\* C37: the back-reference never outlives its device: when shutdown (which the
\* destructor runs) has returned, current_instance_ does not refer to the
\* device that was shut down.
C37_BackReferenceClearedAtShutdown ==
    call.op = "shutdown" => current_instance # call.dev

\* C38: the identity a device reports agrees with the classifier: for every
\* enumerated driver name, getType of a hardware-mode device bound to that
\* name is the type getDetectedHardware assigns to the name.
C38_TypeAgreesWithClassifier ==
    (detected # NotRun /\ asio_enabled) => detected = TypesOfDriverNames(enumerated)

\* C39: after processAudio(inputs, outputs, n) of the pass-through processor
\* every output channel has exactly n samples, each the input sample of the
\* same channel and index when there is one and 0 otherwise; the number of
\* output channels is unchanged and the inputs are not modified.
C39_PassThroughContract ==
    test_call.pc = "done" =>
        /\ Len(test_call.outputs) = Len(test_call.outputs0)
        /\ test_call.inputs = test_call.inputs0
        /\ \A ch \in 1..Len(test_call.outputs) :
              /\ Len(test_call.outputs[ch]) = test_call.n
              /\ \A i \in 1..test_call.n :
                    test_call.outputs[ch][i] =
                        IF ch <= Len(test_call.inputs0) /\ i <= Len(test_call.inputs0[ch])
                        THEN test_call.inputs0[ch][i]
                        ELSE 0

\* C39 witness: a call has returned in which one output channel was longer
\* than n and another shorter, one sample was copied from an input and one
\* filled with 0 for want of an input sample.
C39_Witness ==
    /\ test_call.pc = "done"
    /\ \E ch \in 1..Len(test_call.outputs0) : Len(test_call.outputs0[ch]) > test_call.n
    /\ \E ch \in 1..Len(test_call.outputs0) : Len(test_call.outputs0[ch]) < test_call.n
    /\ \E ch \in 1..Len(test_call.outputs), i \in 1..test_call.n :
          test_call.outputs[ch][i] = InputSample(ch, i)
    /\ \E ch \in 1..Len(test_call.outputs), i \in 1..test_call.n :
          test_call.outputs[ch][i] = 0

====
